---- MODULE Spec2Model ----
(***************************************************************************)
(* Frame handoff pipeline of ban-shadow: the capture callback              *)
(* (src/capture.rs, Capturer) publishes into the shared slot (SharedData   *)
(* behind Arc<Mutex<..>>), the render thread (src/app.rs, App) consumes    *)
(* it on every RedrawRequested and handles Resized.                        *)
(*                                                                         *)
(* The repository has two frame transports.  src/ holds the producer of    *)
(* the shared-texture transport (capture.rs) and the consumer of the       *)
(* byte-buffer transport (app.rs, which swaps `shared.buffer`).  Their     *)
(* counterparts -- the byte-buffer producer that fills `shared.buffer` and *)
(* the shared-texture consumer that takes the keyed mutex with key 1 --    *)
(* are not in src/ and are modelled from spec.md sections 4.2 and 4.3.     *)
(* The variable `transport` is the transport selected at startup;          *)
(* "Source" is the pairing of the two files as they stand in src/: the     *)
(* shared-texture producer with the byte-buffer consumer, whose            *)
(* `shared.buffer` nobody fills and which never touches the keyed mutex.   *)
(***************************************************************************)
EXTENDS Integers, Sequences, FiniteSets, TLC

\* ---------------------------------------------------------------- bounds
MaxFrames == 2      \* frames the Frame Source delivers
MaxWidth  == 2      \* frame / window widths are 1..MaxWidth (0 for resize)
MaxHeight == 1      \* frame / window heights are 1..MaxHeight (0 for resize)

\* ------------------------------------------------------------- constants
BytesPerPixel == 4

VARIABLES
  \* frame transport (spec.md section 9: selected at startup)
  transport,
  \* SharedData behind the slot mutex
  lock, handle, width, height, frame_id, buffer,
  \* Capturer
  pc_c, frame, frames, shared_texture, shared_mutex, shared_size,
  current_frame_id, scratch,
  \* shared D3D11 textures and their keyed mutexes, by texture id;
  \* km_writes counts the adapter's copies into a texture since the render
  \* loop last took and returned it; tex_size is the size a texture was
  \* created with, <<0, 0>> before its creation and after the adapter has
  \* dropped it
  textures, km_key, km_holder, tex_data, km_writes, tex_size,
  \* App
  pc_r, size, config, texture, bind_group, last_frame_id, local_buffer,
  presented, read, bound_handle,
  \* observations of the render thread
  observed, dirty, resized, ticked, tick, fx

slotVars   == <<lock, handle, width, height, frame_id, buffer>>
capVars    == <<pc_c, frame, frames, shared_texture, shared_mutex, shared_size,
                current_frame_id, scratch>>
texVars    == <<textures, km_key, km_holder, tex_data, km_writes, tex_size>>
appVars    == <<pc_r, size, config, texture, bind_group, last_frame_id,
                local_buffer, presented, read, bound_handle>>
obsVars    == <<observed, dirty, resized, ticked, tick, fx>>
variantVars == <<transport>>
vars == <<variantVars, slotVars, capVars, texVars, appVars, obsVars>>

\* ------------------------------------------------------------ value sets
Widths   == 1..MaxWidth
Heights  == 1..MaxHeight
TexIds   == 1..MaxFrames
None     == 0                      \* Option::None for handles and textures

EmptyVec == [len |-> 0, data |-> 0]

\* (w * h * 4) as usize; the u32 product cannot wrap for sizes below
\* 32768 x 32768, far above the widths and heights explored here
ExpectedSize(w, h) == w * h * BytesPerPixel

\* variant: the local buffer is swapped in without being resized first
VecNoResize(v, n) == v

\* Vec::resize(len, 0): same allocation, new length
VecResize(v, n) == [len |-> n, data |-> v.data]

\* what the last handler of the render thread did
NoFx == [op |-> "none", configure |-> FALSE, zero |-> FALSE,
         upload |-> FALSE, draw |-> FALSE, present |-> FALSE]

\* what the running redraw tick found when it held the slot guard
NoTick == [second |-> FALSE, dirty |-> FALSE, resized |-> "no",
           consumed |-> FALSE, updated |-> FALSE, prev_len |-> 0]

\* no frame is being handled
NoFrame == [w |-> 0, h |-> 0, seq |-> 0]

NoRead == [handle |-> None, width |-> 0, height |-> 0, frame_id |-> 0]

\* variant: the guard outlives its block and the lock stays taken
GuardKept(holder) == holder

\* dropping the MutexGuard releases the slot lock
GuardDrop(holder) == "free"

\* ------------------------------------------------------------------ Init
Init ==
  /\ transport \in {"SharedTexture", "ByteBuffer", "Source"}
  \* SharedData::default()
  /\ lock = "free"
  /\ handle = None
  /\ width = 0
  /\ height = 0
  /\ frame_id = 0
  /\ buffer = EmptyVec
  \* Capturer::new
  /\ pc_c = "idle"
  /\ frame = NoFrame
  /\ frames = 0
  /\ shared_texture = None
  /\ shared_mutex = None
  /\ shared_size = <<0, 0>>
  /\ current_frame_id = 0
  /\ scratch = EmptyVec
  /\ textures = 0
  /\ km_key = [t \in TexIds |-> 0]
  /\ km_holder = [t \in TexIds |-> {}]
  /\ tex_data = [t \in TexIds |-> 0]
  /\ km_writes = [t \in TexIds |-> 0]
  /\ tex_size = [t \in TexIds |-> <<0, 0>>]
  \* App::new
  /\ pc_r = "idle"
  /\ \E w \in Widths, h \in Heights :
        /\ size = <<w, h>>
        /\ config = <<w, h>>
        /\ texture = [w |-> w, h |-> h, data |-> 0]
        /\ bind_group = <<w, h>>
  /\ last_frame_id = 0
  /\ local_buffer = EmptyVec
  /\ presented = [data |-> 0]
  /\ read = NoRead
  /\ bound_handle = None
  /\ observed = 0
  /\ dirty = FALSE
  /\ resized = "no"
  /\ ticked = FALSE
  /\ tick = NoTick
  /\ fx = NoFx

\* =========================================================== capture.rs
\* The Frame Source invokes Capturer::on_frame_arrived with a frame of
\* w x h.  ensure_shared_texture (called first) returns early when the
\* shared texture exists and has the frame's size.
FrameArrived(w, h) ==
  /\ transport \in {"SharedTexture", "Source"}
  /\ pc_c = "idle"
  /\ frames < MaxFrames
  /\ frames' = frames + 1
  /\ frame' = [w |-> w, h |-> h, seq |-> frames + 1]
  /\ pc_c' = IF shared_texture # None /\ shared_size = <<w, h>>
               THEN "acquire" ELSE "create"
  /\ UNCHANGED <<shared_texture, shared_mutex, shared_size, current_frame_id,
                 scratch>>
  /\ UNCHANGED <<variantVars, slotVars, texVars, appVars, obsVars>>

\* ensure_shared_texture: CreateTexture2D, cast to IDXGIResource,
\* GetSharedHandle and cast to IDXGIKeyedMutex all succeed; the new texture
\* starts with its keyed mutex released with key 0.
CreateTexture ==
  /\ pc_c = "create"
  /\ textures' = textures + 1
  /\ km_key' = [km_key EXCEPT ![textures + 1] = 0]
  /\ km_holder' = [km_holder EXCEPT ![textures + 1] = {}]
  /\ tex_size' = [tex_size EXCEPT ![textures + 1] = <<frame.w, frame.h>>]
  /\ pc_c' = "publish_lock"
  /\ UNCHANGED <<tex_data, km_writes, frame, frames, shared_texture,
                 shared_mutex, shared_size, current_frame_id, scratch>>
  /\ UNCHANGED <<variantVars, slotVars, appVars, obsVars>>

\* variant: a fallible call also follows the publication of the handle
FallibleAfterPublish == {"create", "acquire"}

\* ensure_shared_texture: the calls that can return an error through `?`
\* (CreateTexture2D, the two casts, GetSharedHandle) all come before the
\* slot is locked and before the adapter's fields are set.
FallibleAt == {"create"}

\* ensure_shared_texture: one of the `?` calls fails; the error leaves
\* on_frame_arrived through `?`, and Capturer::start(settings).unwrap()
\* ends the capture thread.
CreateTextureFails ==
  /\ pc_c \in FallibleAt
  /\ pc_c' = "stopped"
  /\ frame' = NoFrame
  /\ UNCHANGED <<frames, shared_texture, shared_mutex, shared_size,
                 current_frame_id, scratch>>
  /\ UNCHANGED <<variantVars, slotVars, texVars, appVars, obsVars>>

\* self.shared_buffer.lock().unwrap() in ensure_shared_texture
EnsureLock ==
  /\ pc_c = "publish_lock"
  /\ lock = "free"
  /\ lock' = "capture"
  /\ pc_c' = "publish"
  /\ UNCHANGED <<handle, width, height, frame_id, buffer>>
  /\ UNCHANGED <<frame, frames, shared_texture, shared_mutex, shared_size,
                 current_frame_id, scratch>>
  /\ UNCHANGED <<variantVars, texVars, appVars, obsVars>>

\* version stored in the slot when a new handle is published
EnsureFrameId(old) == 0

\* variant: the slot keeps the size of the texture published before
PublishedSizeStale(f) == shared_size

\* ensure_shared_texture: shared.width = width; shared.height = height, the
\* frame's size, which is also the size in the texture's description
PublishedSize(f) == <<f.w, f.h>>

\* ensure_shared_texture: publish handle and size, drop the guard, then
\* remember the texture, its mutex and its size; the assignment drops the
\* adapter's reference to the texture it held before.
EnsurePublish ==
  /\ pc_c = "publish"
  /\ lock = "capture"
  /\ handle' = textures
  /\ width' = PublishedSize(frame)[1]
  /\ height' = PublishedSize(frame)[2]
  /\ frame_id' = EnsureFrameId(frame_id)
  /\ lock' = GuardDrop(lock)
  /\ shared_texture' = textures
  /\ shared_mutex' = textures
  /\ shared_size' = <<frame.w, frame.h>>
  /\ dirty' = TRUE
  /\ pc_c' = "acquire"
  /\ UNCHANGED <<buffer, frame, frames, current_frame_id, scratch>>
  /\ tex_size' = IF shared_texture = None THEN tex_size
                 ELSE [tex_size EXCEPT ![shared_texture] = <<0, 0>>]
  /\ UNCHANGED <<textures, km_key, km_holder, tex_data, km_writes>>
  /\ UNCHANGED <<observed, resized, ticked, tick, fx>>
  /\ UNCHANGED <<variantVars, appVars>>

\* IDXGIKeyedMutex::AcquireSync(key, 0): succeeds iff the mutex is released
\* and was last released with this key.
CanAcquire(t, key) == km_holder[t] = {} /\ km_key[t] = key

\* variant: the result of AcquireSync(0, 0) is ignored
AcquireFailedNever(t) == FALSE

\* on_frame_arrived: unsafe { shared_mutex.AcquireSync(0, 0) }.is_err()
AcquireFailed(t) == ~CanAcquire(t, 0)

\* on_frame_arrived: the two let-else returns, then AcquireSync(0, 0);
\* on failure the callback returns Ok(()).
AcquireSync ==
  /\ pc_c = "acquire"
  /\ IF shared_texture = None \/ shared_mutex = None
        \/ AcquireFailed(shared_mutex)
       THEN /\ pc_c' = "idle"
            /\ frame' = NoFrame
            /\ UNCHANGED km_holder
       ELSE /\ km_holder' = [km_holder EXCEPT ![shared_mutex] = @ \cup {"capture"}]
            /\ pc_c' = "copy"
            /\ UNCHANGED frame
  /\ UNCHANGED <<textures, km_key, tex_data, km_writes, tex_size>>
  /\ UNCHANGED <<frames, shared_texture, shared_mutex, shared_size,
                 current_frame_id, scratch>>
  /\ UNCHANGED <<variantVars, slotVars, appVars, obsVars>>

\* variant: the adapter releases the keyed mutex with the key it acquired
ReleaseKeySame(acquired) == acquired

\* on_frame_arrived: the key of shared_mutex.ReleaseSync(1), after
\* AcquireSync(0, 0)
ReleaseKey(acquired) == 1

\* variant: the frame counter restarts from the slot's version
NextFrameIdFromSlot(counter) == frame_id + 1

\* on_frame_arrived: self.current_frame_id += 1
NextFrameId(counter) == counter + 1

\* on_frame_arrived: CopyResource into the shared texture, ReleaseSync(1),
\* current_frame_id += 1.
CopyRelease ==
  /\ pc_c = "copy"
  /\ tex_data' = [tex_data EXCEPT ![shared_texture] = frame.seq]
  /\ km_key' = [km_key EXCEPT ![shared_mutex] = ReleaseKey(0)]
  /\ km_holder' = [km_holder EXCEPT ![shared_mutex] = @ \ {"capture"}]
  /\ km_writes' = [km_writes EXCEPT ![shared_texture] = @ + 1]
  /\ current_frame_id' = NextFrameId(current_frame_id)
  /\ pc_c' = "frame_lock"
  /\ UNCHANGED <<textures, tex_size, frame, frames, shared_texture,
                 shared_mutex, shared_size, scratch>>
  /\ UNCHANGED <<variantVars, slotVars, appVars, obsVars>>

\* self.shared_buffer.lock().unwrap() in on_frame_arrived
FrameLock ==
  /\ pc_c = "frame_lock"
  /\ lock = "free"
  /\ lock' = "capture"
  /\ pc_c' = "frame_publish"
  /\ UNCHANGED <<handle, width, height, frame_id, buffer>>
  /\ UNCHANGED <<frame, frames, shared_texture, shared_mutex, shared_size,
                 current_frame_id, scratch>>
  /\ UNCHANGED <<variantVars, texVars, appVars, obsVars>>

\* on_frame_arrived: shared.frame_id = self.current_frame_id; return Ok(())
FramePublish ==
  /\ pc_c = "frame_publish"
  /\ lock = "capture"
  /\ frame_id' = current_frame_id
  /\ lock' = GuardDrop(lock)
  /\ dirty' = TRUE
  /\ pc_c' = "idle"
  /\ frame' = NoFrame
  /\ UNCHANGED <<handle, width, height, buffer>>
  /\ UNCHANGED <<frames, shared_texture, shared_mutex, shared_size,
                 current_frame_id, scratch>>
  /\ UNCHANGED <<observed, resized, ticked, tick, fx>>
  /\ UNCHANGED <<variantVars, texVars, appVars>>

\* variant: the zero-size guard is missing
ResizeAcceptsAny(w, h) == TRUE

\* =============================================================== app.rs
\* App::resize guard: new_size.width > 0 && new_size.height > 0
ResizeAccepts(w, h) == w > 0 /\ h > 0

\* AppHandler::window_event, WindowEvent::Resized -> App::resize.  Runs on
\* the event thread, so never inside a render.
Resized(w, h) ==
  /\ pc_r = "idle"
  /\ IF ResizeAccepts(w, h)
       THEN /\ size' = <<w, h>>
            /\ config' = <<w, h>>
            /\ texture' = [w |-> w, h |-> h, data |-> 0]
            /\ bind_group' = <<w, h>>
            /\ resized' = IF size = <<w, h>> /\ resized # "changed"
                            THEN "same" ELSE "changed"
            /\ fx' = [NoFx EXCEPT !.op = "resize", !.configure = TRUE,
                                  !.zero = (w = 0 \/ h = 0)]
       ELSE /\ UNCHANGED <<size, config, texture, bind_group, resized>>
            /\ fx' = [NoFx EXCEPT !.op = "resize",
                                  !.zero = (w = 0 \/ h = 0)]
  /\ UNCHANGED <<pc_r, last_frame_id, local_buffer, presented, read,
                 bound_handle>>
  /\ UNCHANGED <<observed, dirty, ticked, tick>>
  /\ UNCHANGED <<variantVars, slotVars, capVars, texVars>>

\* AppHandler::window_event, WindowEvent::RedrawRequested -> App::render
RedrawRequested ==
  /\ pc_r = "idle"
  /\ pc_r' = "lock"
  /\ UNCHANGED <<size, config, texture, bind_group, last_frame_id,
                 local_buffer, presented, read, bound_handle>>
  /\ UNCHANGED <<variantVars, slotVars, capVars, texVars, obsVars>>

\* self.capture_buffer.lock().unwrap()
RenderLock ==
  /\ pc_r = "lock"
  /\ lock = "free"
  /\ lock' = "render"
  /\ pc_r' = "cs"
  /\ UNCHANGED <<handle, width, height, frame_id, buffer>>
  /\ UNCHANGED <<size, config, texture, bind_group, last_frame_id,
                 local_buffer, presented, read, bound_handle>>
  /\ UNCHANGED <<variantVars, capVars, texVars, obsVars>>

\* variant: the version comparison is missing
HasNewFrameAlways(fid, last, buf) == buf.len # 0

\* App::render: shared.frame_id > self.last_frame_id && !shared.buffer.is_empty()
HasNewFrame(fid, last, buf) == fid > last /\ buf.len # 0

\* variant: the render loop remembers a version one ahead of the slot's
ConsumedVersionNext(fid) == fid + 1

\* App::render: self.last_frame_id = shared.frame_id
ConsumedVersion(fid) == fid

\* what the tick knows when the guard is dropped
TickObs(cons, upd) ==
  [second |-> ticked, dirty |-> dirty, resized |-> resized,
   consumed |-> cons, updated |-> upd, prev_len |-> local_buffer.len]

\* App::render, the block holding the slot guard: resize local_buffer to
\* the slot buffer's length, swap the two buffers, remember the version.
RenderSwap ==
  /\ transport \in {"ByteBuffer", "Source"}
  /\ pc_r = "cs"
  /\ lock = "render"
  /\ IF HasNewFrame(frame_id, last_frame_id, buffer)
       THEN /\ local_buffer' = buffer
            /\ buffer' = VecResize(local_buffer, buffer.len)
            /\ last_frame_id' = ConsumedVersion(frame_id)
            /\ tick' = TickObs(TRUE, last_frame_id # frame_id)
       ELSE /\ UNCHANGED <<local_buffer, buffer, last_frame_id>>
            /\ tick' = TickObs(FALSE, FALSE)
  /\ read' = [handle |-> handle, width |-> width, height |-> height,
              frame_id |-> frame_id]
  /\ observed' = frame_id
  /\ dirty' = FALSE
  /\ resized' = "no"
  /\ lock' = GuardDrop(lock)
  /\ pc_r' = "draw"
  /\ UNCHANGED <<handle, width, height, frame_id>>
  /\ UNCHANGED <<size, config, texture, bind_group, presented, bound_handle>>
  /\ UNCHANGED <<ticked, fx>>
  /\ UNCHANGED <<variantVars, capVars, texVars>>

\* variant: the length check before the upload is missing
SizeMatchesAny(len, w, h) == TRUE

\* App::render: self.local_buffer.len() != expected_size -> return
SizeMatches(len, w, h) == len = ExpectedSize(w, h)

\* App::render after the guard: the size check, queue.write_texture, the
\* render pass drawing the bound texture, queue.submit and present; then
\* window_event requests the next redraw.
RenderDraw ==
  /\ transport \in {"ByteBuffer", "Source"}
  /\ pc_r = "draw"
  /\ IF SizeMatches(local_buffer.len, size[1], size[2])
       THEN /\ texture' = [texture EXCEPT !.data = local_buffer.data]
            /\ presented' = [data |-> IF bind_group = <<texture.w, texture.h>>
                                        THEN local_buffer.data ELSE 0]
            /\ fx' = [NoFx EXCEPT !.op = "render", !.upload = TRUE,
                                  !.draw = TRUE, !.present = TRUE]
       ELSE /\ UNCHANGED <<texture, presented>>
            /\ fx' = [NoFx EXCEPT !.op = "render"]
  /\ tick' = NoTick
  /\ ticked' = TRUE
  /\ read' = NoRead
  /\ pc_r' = "idle"
  /\ UNCHANGED <<size, config, bind_group, last_frame_id, local_buffer,
                 bound_handle>>
  /\ UNCHANGED <<observed, dirty, resized>>
  /\ UNCHANGED <<variantVars, slotVars, capVars, texVars>>

\* ============================== byte-buffer producer (spec.md 4.2, copy)
\* On each delivered frame: obtain the byte view (skip the frame when it is
\* unavailable), resize the scratch buffer and copy the frame into it.
CopyFrameArrived(w, h, ok) ==
  /\ transport = "ByteBuffer"
  /\ pc_c = "idle"
  /\ frames < MaxFrames
  /\ frames' = frames + 1
  /\ IF ok
       THEN /\ frame' = [w |-> w, h |-> h, seq |-> frames + 1]
            /\ scratch' = [len |-> ExpectedSize(w, h), data |-> frames + 1]
            /\ pc_c' = "swap_lock"
       ELSE /\ UNCHANGED <<frame, scratch>>
            /\ pc_c' = "idle"
  /\ UNCHANGED <<shared_texture, shared_mutex, shared_size, current_frame_id>>
  /\ UNCHANGED <<variantVars, slotVars, texVars, appVars, obsVars>>

\* take the slot lock
CopySwapLock ==
  /\ pc_c = "swap_lock"
  /\ lock = "free"
  /\ lock' = "capture"
  /\ pc_c' = "swap"
  /\ UNCHANGED <<handle, width, height, frame_id, buffer>>
  /\ UNCHANGED <<frame, frames, shared_texture, shared_mutex, shared_size,
                 current_frame_id, scratch>>
  /\ UNCHANGED <<variantVars, texVars, appVars, obsVars>>

\* publish(new_payload, width, height): swap the scratch buffer with the
\* slot's payload, set the dimensions, increment the version, release.
CopySwap ==
  /\ pc_c = "swap"
  /\ lock = "capture"
  /\ buffer' = scratch
  /\ scratch' = buffer
  /\ width' = frame.w
  /\ height' = frame.h
  /\ frame_id' = frame_id + 1
  /\ lock' = GuardDrop(lock)
  /\ dirty' = TRUE
  /\ pc_c' = "idle"
  /\ frame' = NoFrame
  /\ UNCHANGED handle
  /\ UNCHANGED <<frames, shared_texture, shared_mutex, shared_size,
                 current_frame_id>>
  /\ UNCHANGED <<observed, resized, ticked, tick, fx>>
  /\ UNCHANGED <<variantVars, texVars, appVars>>

\* ======================== shared-texture consumer (spec.md 4.3, steps 1-7)
\* step 1: under the slot's lock read (handle, width, height, version) and
\* release the lock immediately.
ZcRead ==
  /\ transport = "SharedTexture"
  /\ pc_r = "cs"
  /\ lock = "render"
  /\ read' = [handle |-> handle, width |-> width, height |-> height,
              frame_id |-> frame_id]
  /\ observed' = frame_id
  /\ tick' = TickObs(FALSE, FALSE)
  /\ dirty' = FALSE
  /\ resized' = "no"
  /\ lock' = GuardDrop(lock)
  /\ pc_r' = "bind"
  /\ UNCHANGED <<handle, width, height, frame_id, buffer>>
  /\ UNCHANGED <<size, config, texture, bind_group, last_frame_id,
                 local_buffer, presented, bound_handle>>
  /\ UNCHANGED <<ticked, fx>>
  /\ UNCHANGED <<variantVars, capVars, texVars>>

\* steps 2, 3 and 5: skip when nothing was published or the version is the
\* one last consumed; import the texture when the handle changed; try the
\* keyed mutex with key 1 without blocking and skip the tick on failure.
ZcBind ==
  /\ transport = "SharedTexture"
  /\ pc_r = "bind"
  /\ IF read.handle = None \/ read.frame_id = last_frame_id
       THEN /\ pc_r' = "idle"
            /\ ticked' = TRUE
            /\ read' = NoRead
            /\ tick' = NoTick
            /\ fx' = [NoFx EXCEPT !.op = "render"]
            /\ UNCHANGED <<bound_handle, km_holder>>
       ELSE /\ bound_handle' = read.handle
            /\ IF CanAcquire(read.handle, 1)
                 THEN /\ km_holder' = [km_holder EXCEPT ![read.handle] = @ \cup {"render"}]
                      /\ pc_r' = "zc_draw"
                      /\ UNCHANGED <<ticked, tick, fx, read>>
                 ELSE /\ pc_r' = "idle"
                      /\ ticked' = TRUE
                      /\ read' = NoRead
                      /\ tick' = NoTick
                      /\ fx' = [NoFx EXCEPT !.op = "render"]
                      /\ UNCHANGED km_holder
  /\ UNCHANGED <<textures, km_key, tex_data, km_writes, tex_size>>
  /\ UNCHANGED <<size, config, texture, bind_group, last_frame_id,
                 local_buffer, presented>>
  /\ UNCHANGED <<observed, dirty, resized>>
  /\ UNCHANGED <<variantVars, slotVars, capVars>>

\* steps 5-7: bind the view, draw, release the keyed mutex with key 0,
\* present and update last_consumed_version.
ZcDraw ==
  /\ transport = "SharedTexture"
  /\ pc_r = "zc_draw"
  /\ km_key' = [km_key EXCEPT ![bound_handle] = 0]
  /\ km_holder' = [km_holder EXCEPT ![bound_handle] = @ \ {"render"}]
  /\ km_writes' = [km_writes EXCEPT ![bound_handle] = 0]
  /\ presented' = [data |-> tex_data[bound_handle]]
  /\ last_frame_id' = read.frame_id
  /\ fx' = [NoFx EXCEPT !.op = "render", !.draw = TRUE, !.present = TRUE]
  /\ tick' = NoTick
  /\ ticked' = TRUE
  /\ read' = NoRead
  /\ pc_r' = "idle"
  /\ UNCHANGED <<textures, tex_data, tex_size>>
  /\ UNCHANGED <<size, config, texture, bind_group, local_buffer,
                 bound_handle>>
  /\ UNCHANGED <<observed, dirty, resized>>
  /\ UNCHANGED <<variantVars, slotVars, capVars>>

\* ====================================================== specification
\* the steps of the two threads that touch the slot, the keyed mutexes or
\* the frame state
Handoff ==
  \/ \E w \in Widths, h \in Heights : FrameArrived(w, h)
  \/ CreateTexture
  \/ CreateTextureFails
  \/ EnsureLock
  \/ EnsurePublish
  \/ AcquireSync
  \/ CopyRelease
  \/ FrameLock
  \/ FramePublish
  \/ RedrawRequested
  \/ RenderLock
  \/ RenderSwap
  \/ RenderDraw
  \/ \E w \in Widths, h \in Heights, ok \in BOOLEAN : CopyFrameArrived(w, h, ok)
  \/ CopySwapLock
  \/ CopySwap
  \/ ZcRead
  \/ ZcBind
  \/ ZcDraw

Next ==
  \/ Handoff
  \/ \E w \in 0..MaxWidth, h \in 0..MaxHeight : Resized(w, h)

Spec == Init /\ [][Next]_vars

\* the steps a thread takes by itself once its handler has started
CaptureStep ==
  \/ CreateTexture \/ CreateTextureFails \/ EnsurePublish \/ AcquireSync
  \/ CopyRelease \/ FramePublish \/ CopySwap

RenderStep == RenderSwap \/ RenderDraw \/ ZcRead \/ ZcBind \/ ZcDraw

\* the blocking lock() calls of the two threads
CaptureLock == EnsureLock \/ FrameLock \/ CopySwapLock

\* Progress of the two threads.  The scheduler runs every started step of a
\* callback or tick (each thread has at most one step enabled at a time);
\* the slot lock is handed to a thread that keeps asking for it.  Frame
\* arrival and redraw events are inputs and carry no fairness.  App::resize
\* takes no lock, waits for nothing and runs only between two ticks of its
\* own thread, so window resizes are left out here.
FairSpec ==
  /\ Init /\ [][Handoff]_vars
  /\ WF_vars(CaptureStep) /\ SF_vars(CaptureLock)
  /\ WF_vars(RenderStep) /\ SF_vars(RenderLock)

\* FairSpec with redraw ticks that never cease: window_event answers every
\* RedrawRequested with render() followed by window.request_redraw(), so
\* the next RedrawRequested always comes.
TickFairSpec == FairSpec /\ WF_vars(RedrawRequested)

\* ================================================================ claims
\* C1 (as claimed): the version the render loop reads from the slot under
\* the lock never decreases from one read to the next.
MonotonicVersion == [][observed' >= observed]_vars

\* C2: byte-buffer transport: once a frame has been published the slot's
\* payload length is width*height*4, and a payload the render loop has just
\* taken has the length given by the width and height it saw in the same
\* critical section.
NoTearing ==
  transport = "ByteBuffer" =>
    /\ frame_id > 0 => buffer.len = ExpectedSize(width, height)
    /\ (pc_r = "draw" /\ tick.consumed) =>
          local_buffer.len = ExpectedSize(read.width, read.height)

\* C2 witness: the render loop has just taken a two-pixel frame while it
\* was holding a one-pixel frame.
NoTearingWitness ==
  /\ transport = "ByteBuffer"
  /\ pc_r = "draw" /\ tick.consumed
  /\ tick.prev_len = ExpectedSize(1, 1)
  /\ local_buffer.len = ExpectedSize(2, 1)
  /\ buffer.len = ExpectedSize(width, height)

\* C3 (as claimed): a redraw tick that follows another tick with no
\* publication and no resize in between uploads nothing to the GPU texture
\* and leaves last_frame_id alone.
NoDoubleDraw ==
  [][(transport = "ByteBuffer" /\ pc_r = "draw" /\ pc_r' = "idle"
        /\ tick.second /\ ~tick.dirty /\ tick.resized = "no")
       => (~fx'.upload /\ ~tick.updated)]_vars

\* C4: no shared texture's keyed mutex is ever held by the capture adapter
\* and the render loop at once; the adapter holds it only under key 0, the
\* render loop only under key 1.
KeyedMutexExclusion ==
  \A t \in TexIds :
    /\ Cardinality(km_holder[t]) <= 1
    /\ "capture" \in km_holder[t] => km_key[t] = 0
    /\ "render" \in km_holder[t] => km_key[t] = 1

\* C4 witness: the adapter holds the mutex of the texture whose handle the
\* render loop has just read and is about to try with key 1.
KeyedMutexExclusionWitness ==
  /\ pc_c = "copy"
  /\ pc_r = "bind"
  /\ read.handle = shared_mutex
  /\ read.frame_id # last_frame_id
  /\ km_holder[shared_mutex] = {"capture"}

\* C5: a Resized event with a zero width or height leaves size, surface
\* configuration, destination texture and bind group as they were and
\* issues no surface.configure.
ZeroResizeIgnored ==
  [][(pc_r = "idle" /\ fx'.op = "resize" /\ fx'.zero)
       => (UNCHANGED <<size, config, texture, bind_group>>
           /\ ~fx'.configure)]_vars

\* C5 witness: a resize with a zero dimension was handled between redraw
\* ticks and the 2x1 size, configuration, texture and bind group are still
\* in place.
ZeroResizeIgnoredWitness ==
  /\ fx.op = "resize" /\ fx.zero /\ ~fx.configure
  /\ ticked
  /\ size = <<2, 1>> /\ config = <<2, 1>>
  /\ texture.w = 2 /\ bind_group = <<2, 1>>

\* C6 (as claimed): the first redraw tick after a resize to a different
\* non-zero size draws and presents at the new size even when no frame was
\* published since the tick before the resize (a frame is held from before).
ResizeRenders ==
  [][(transport = "ByteBuffer" /\ pc_r = "draw" /\ pc_r' = "idle"
        /\ tick.resized = "changed" /\ tick.second /\ ~tick.dirty
        /\ local_buffer.len # 0)
       => (fx'.draw /\ fx'.present /\ config = size
           /\ <<texture'.w, texture'.h>> = size)]_vars

\* C7 (as claimed): the tick that takes a frame whose size differs from the
\* frame held so far resizes the local buffer to the new width*height*4,
\* sets last_frame_id to the published version and draws that frame.
DimensionChangeConsumed ==
  [][(transport = "ByteBuffer" /\ pc_r = "draw" /\ pc_r' = "idle"
        /\ tick.consumed /\ tick.prev_len # 0
        /\ tick.prev_len # ExpectedSize(read.width, read.height))
       => /\ local_buffer'.len = ExpectedSize(read.width, read.height)
          /\ last_frame_id' = read.frame_id
          /\ fx'.draw
          /\ presented'.data = local_buffer'.data]_vars

\* C8: byte-buffer transport: once a frame is held, a redraw tick with no
\* publication and no resize since the previous tick leaves local_buffer
\* and last_frame_id unchanged, and if it draws it shows the held frame.
StalledProducerHolds ==
  [][/\ (transport = "ByteBuffer" /\ pc_r = "cs" /\ pc_r' = "draw"
           /\ ticked /\ ~dirty /\ resized = "no" /\ local_buffer.len # 0)
          => (local_buffer' = local_buffer /\ last_frame_id' = last_frame_id)
     /\ (transport = "ByteBuffer" /\ pc_r = "draw" /\ pc_r' = "idle"
           /\ tick.second /\ ~tick.dirty /\ tick.resized = "no"
           /\ local_buffer.len # 0)
          => /\ local_buffer' = local_buffer
             /\ last_frame_id' = last_frame_id
             /\ fx'.draw => (presented'.data = local_buffer.data
                             /\ presented'.data # 0)]_vars

\* C8 witness: a tick with nothing published and no resize since the tick
\* before it has left the held frame alone and is about to draw it again.
StalledProducerHoldsWitness ==
  /\ transport = "ByteBuffer"
  /\ pc_r = "draw"
  /\ tick.second /\ ~tick.dirty /\ tick.resized = "no" /\ ~tick.consumed
  /\ local_buffer.data # 0
  /\ presented.data = local_buffer.data
  /\ SizeMatches(local_buffer.len, size[1], size[2])

\* C9: under FairSpec every started capture callback returns (or ends the
\* capture thread with its error) and every started redraw tick returns.
NoIndefiniteBlocking ==
  /\ (pc_c \notin {"idle", "stopped"}) ~> (pc_c \in {"idle", "stopped"})
  /\ (pc_r # "idle") ~> (pc_r = "idle")

\* C9 witness: the capture callback waits for the slot lock while the
\* render loop holds it.
NoIndefiniteBlockingWitness ==
  /\ pc_c = "frame_lock"
  /\ lock = "render"
  /\ pc_r = "cs"

\* C10 (as claimed): while the render loop holds the slot lock no field of
\* the slot changes.
SingleWriter ==
  [][lock = "render"
       => UNCHANGED <<handle, width, height, frame_id, buffer>>]_vars

\* C11: a callback for a frame of the shared texture's size whose
\* AcquireSync(0, 0) fails returns Ok: nothing is copied, the frame counter
\* and every slot field stay as they were when the frame arrived, the keyed
\* mutex is untouched, and the adapter is back to waiting for the next frame
\* with the same texture, mutex and size.
ProducerSkipOnFailedAcquire ==
  [][/\ (pc_c = "idle" /\ pc_c' = "acquire")
          => UNCHANGED <<handle, width, height, frame_id, buffer, tex_data,
                         current_frame_id, shared_texture, shared_mutex,
                         shared_size, km_key, km_holder>>
     /\ (pc_c = "acquire" /\ pc_c' # "acquire" /\ shared_mutex # None
           /\ ~CanAcquire(shared_mutex, 0))
          => /\ pc_c' = "idle"
             /\ UNCHANGED <<handle, width, height, frame_id, buffer, tex_data,
                            current_frame_id, shared_texture, shared_mutex,
                            shared_size, km_key, km_holder>>]_vars

\* C11 witness: two frames were delivered, one texture was allocated and
\* only the first frame was copied and published; the callback of the
\* second returned and the adapter waits for the next frame.
ProducerSkipOnFailedAcquireWitness ==
  /\ transport = "SharedTexture"
  /\ pc_c = "idle"
  /\ frames = 2 /\ textures = 1
  /\ current_frame_id = 1 /\ frame_id = 1
  /\ tex_data[1] = 1
  /\ km_key[1] = 1
  /\ shared_texture = 1 /\ shared_size = <<width, height>>

\* C12 (as claimed): a redraw tick that returns without uploading because
\* the length of the payload it holds is not width*height*4 of the window
\* has not changed last_frame_id.
MismatchSkipKeepsVersion ==
  [][(transport = "ByteBuffer" /\ pc_r = "draw" /\ pc_r' = "idle"
        /\ local_buffer.len # 0
        /\ ~SizeMatches(local_buffer.len, size[1], size[2])
        /\ ~fx'.upload)
       => ~tick.updated]_vars

\* C13: byte-buffer transport: a redraw tick that found the slot never
\* published (version 0, empty payload) takes nothing, keeps last_frame_id
\* at its initial 0, and uploads, draws and presents nothing.
NothingBeforeFirstPublication ==
  [][/\ (transport = "ByteBuffer" /\ pc_r = "cs" /\ pc_r' = "draw"
           /\ frame_id = 0 /\ buffer.len = 0)
          => (last_frame_id' = 0 /\ local_buffer' = EmptyVec
              /\ buffer' = buffer)
     /\ (transport = "ByteBuffer" /\ pc_r = "draw" /\ pc_r' = "idle"
           /\ read.frame_id = 0)
          => /\ ~fx'.upload /\ ~fx'.draw /\ ~fx'.present
             /\ presented' = presented /\ texture' = texture
             /\ last_frame_id' = 0]_vars

\* C13 witness: a redraw tick has run to its end while no frame was ever
\* delivered; nothing was drawn and last_frame_id is 0.
NothingBeforeFirstPublicationWitness ==
  /\ transport = "ByteBuffer"
  /\ pc_r = "idle" /\ ticked
  /\ frames = 0 /\ frame_id = 0 /\ buffer.len = 0
  /\ fx.op = "render" /\ ~fx.upload /\ ~fx.draw /\ ~fx.present
  /\ last_frame_id = 0
  /\ presented.data = 0

\* C14: a thread holds the slot lock only at the step that reads, writes or
\* swaps slot fields; the step a thread takes while it holds the lock
\* creates no texture, touches no keyed mutex, copies into no shared
\* texture, uploads nothing, draws nothing and presents nothing.
SlotLockScope ==
  [][/\ lock' = "capture" => pc_c' \in {"publish", "frame_publish", "swap"}
     /\ lock' = "render" => pc_r' = "cs"
     /\ (lock = "capture" /\ pc_c' # pc_c)
          => UNCHANGED <<textures, km_key, km_holder, tex_data>>
     /\ (lock = "render" /\ pc_r' # pc_r)
          => UNCHANGED <<km_key, km_holder, texture, presented, fx>>]_vars

\* C14 witness: the adapter has copied the frame into the shared texture and
\* released the keyed mutex with key 1, and only now holds the slot lock to
\* store the version.
SlotLockScopeWitness ==
  /\ pc_c = "frame_publish" /\ lock = "capture"
  /\ tex_data[shared_texture] = frame.seq
  /\ km_key[shared_mutex] = 1 /\ km_holder[shared_mutex] = {}
  /\ frame_id < current_frame_id

\* C15 (as claimed): once a first handle is in the slot, every publication
\* by the capture adapter (the version store after a copy, or the
\* publication of a new handle after a dimension change) leaves the slot's
\* version exactly one greater than it was.
VersionStep ==
  [][(transport # "ByteBuffer" /\ handle # None
        /\ pc_c \in {"publish", "frame_publish"} /\ pc_c' # pc_c)
       => frame_id' = frame_id + 1]_vars

\* C16: on every shared texture the capture adapter has copied at most once
\* since the render loop last acquired it with key 1 and released it with
\* key 0: two copies into one texture are always separated by a consumer
\* acquire and release.
StrictAlternation == \A t \in TexIds : km_writes[t] <= 1

\* C16 witness: the render loop has drawn frame 1 from the texture and
\* returned it, and the adapter has then copied frame 2 into the same
\* texture.
StrictAlternationWitness ==
  /\ textures = 1
  /\ presented.data = 1
  /\ tex_data[1] = 2
  /\ km_writes[1] = 1
  /\ km_key[1] = 1 /\ km_holder[1] = {}

\* C17: a capture callback that ends with a resource-creation error came
\* straight from the arrival of the frame, and neither the arrival nor the
\* failing call changed the slot's handle, width, height or version or the
\* adapter's shared texture, keyed mutex, shared_size or frame counter.
CreateFailureKeepsState ==
  [][/\ (pc_c # "create" /\ pc_c' = "create")
          => /\ pc_c = "idle"
             /\ UNCHANGED <<handle, width, height, frame_id, buffer,
                            shared_texture, shared_mutex, shared_size,
                            current_frame_id>>
     /\ (pc_c # "stopped" /\ pc_c' = "stopped")
          => /\ pc_c = "create"
             /\ UNCHANGED <<handle, width, height, frame_id, buffer,
                            shared_texture, shared_mutex, shared_size,
                            current_frame_id>>]_vars

\* C17 witness: the callback for a second frame of another size has failed;
\* slot and adapter still hold the first texture, its size and version 1.
CreateFailureKeepsStateWitness ==
  /\ pc_c = "stopped"
  /\ frames = 2 /\ textures = 1
  /\ handle = 1 /\ frame_id = 1
  /\ shared_texture = 1 /\ shared_mutex = 1
  /\ shared_size = <<width, height>>
  /\ current_frame_id = 1

\* C18 (as claimed): a capture callback that is allocating the shared
\* texture either goes on to publish it or, when the allocation fails,
\* returns the adapter to waiting for the next frame.
CaptureSurvivesCreateFailure ==
  [][(pc_c = "create" /\ pc_c' # "create")
       => pc_c' \in {"publish_lock", "idle"}]_vars

\* C19: shared-texture producer: whenever the slot lock is free, the slot
\* either has no handle and width = height = 0, or it has the handle of the
\* newest texture the adapter has published, a texture the adapter has not
\* dropped, with that texture's width and height; every older texture is
\* retired.  (A callback that has allocated a texture and is waiting for
\* the lock has not published it yet: until it does the slot holds the
\* texture before it.)
SlotHandleSizeConsistent ==
  (transport # "ByteBuffer" /\ lock = "free") =>
    /\ handle = (IF pc_c = "publish_lock" THEN textures - 1 ELSE textures)
    /\ IF handle = None
         THEN width = 0 /\ height = 0
         ELSE /\ tex_size[handle] = <<width, height>>
              /\ width > 0 /\ height > 0
              /\ \A t \in TexIds : t < handle => tex_size[t] = <<0, 0>>

\* C19 witness: after a resolution change the slot holds the second
\* texture's handle with its 2x1 size; the first texture, 1x1, is retired.
SlotHandleSizeConsistentWitness ==
  /\ lock = "free"
  /\ handle = 2 /\ textures = 2
  /\ <<width, height>> = <<2, 1>>
  /\ tex_size[2] = <<2, 1>> /\ tex_size[1] = <<0, 0>>
  /\ tex_data[1] = 1

\* the highest version published so far: the shared-texture adapter stores
\* its frame counter, which never decreases (the slot's own version can be
\* smaller after a new handle); the byte-buffer producer has no counter of
\* its own and only ever increments the slot's version.
HighestPublished ==
  IF transport = "ByteBuffer" THEN frame_id ELSE current_frame_id

\* C20: the slot's version and last_frame_id are never greater than the
\* highest version published so far, and App::render never lowers
\* last_frame_id.
ConsumerNotAhead ==
  [][/\ frame_id <= HighestPublished /\ frame_id' <= HighestPublished'
     /\ last_frame_id <= HighestPublished
     /\ last_frame_id' <= HighestPublished'
     /\ transport = "ByteBuffer" => last_frame_id' >= last_frame_id]_vars

\* C20 witness: App::render held version 1 and has just taken version 2,
\* the highest published.
ConsumerNotAheadWitness ==
  /\ transport = "ByteBuffer"
  /\ pc_r = "draw"
  /\ tick.second /\ tick.consumed /\ tick.updated /\ tick.prev_len # 0
  /\ last_frame_id = 2 /\ frame_id = 2

\* C21 (as claimed): under TickFairSpec, whenever the adapter's
\* AcquireSync(0, 0) on its shared texture would fail (the texture was
\* written and not yet returned, or one side holds it), a state follows in
\* which it would succeed, unless the capture thread has ended: the
\* producer is never locked out for good.
ProducerNotStarved ==
  (pc_c # "stopped" /\ shared_mutex # None /\ ~CanAcquire(shared_mutex, 0))
     ~> \/ pc_c = "stopped"
        \/ (shared_mutex # None /\ CanAcquire(shared_mutex, 0))

\* C22: shared-texture producer: every per-frame publication, also the
\* first one after a new handle has set the slot's version to 0, stores a
\* version for which App::render's version comparison against the
\* last_frame_id held at that moment is true; and whenever a redraw tick
\* reads a version that is neither 0 nor the one last consumed, the
\* comparison is true as well.
ResetKeepsFramesVisible ==
  [][/\ (transport # "ByteBuffer" /\ pc_c = "frame_publish" /\ pc_c' = "idle")
          => HasNewFrame(frame_id', last_frame_id', [len |-> 1, data |-> 0])
     /\ (transport # "ByteBuffer" /\ pc_r = "cs" /\ pc_r' # "cs"
           /\ frame_id # 0 /\ frame_id # last_frame_id)
          => HasNewFrame(frame_id, last_frame_id, [len |-> 1, data |-> 0])]_vars

\* C22 witness: version 1 was consumed, a frame of another size brought a
\* second texture and version 0, and the publication of that frame has
\* stored version 2; the render loop holds the lock for its next read.
ResetKeepsFramesVisibleWitness ==
  /\ transport = "SharedTexture"
  /\ handle = 2 /\ textures = 2
  /\ frame_id = 2 /\ current_frame_id = 2
  /\ last_frame_id = 1
  /\ pc_c = "idle" /\ pc_r = "cs"

====
